---- MODULE Spec2Model ----
(***************************************************************************)
(* RPN target construction of mrcnn/data/data_generator.py:                *)
(* build_rpn_targets (anchor matching, balance subsampling, regression     *)
(* targets) and DataGenerator.__getitem__ (load/retry loop, fitting the    *)
(* ground truth to MAX_GT_INSTANCES).                                      *)
(*                                                                         *)
(* Conventions.  A box is <<y1, x1, y2, x2>>.  Python indices are 0-based, *)
(* sequences here are 1-based: anchor i of the code is anchors[i+1].  ix   *)
(* keeps the code's value (the number of rows written so far), so the row  *)
(* the code calls rpn_bbox[ix] is rpn_bbox[ix + 1] here.  An IoU is kept   *)
(* as the exact fraction <<intersection, union>>; thresholds are fractions *)
(* <<numerator, denominator>> and are compared by cross multiplication.    *)
(***************************************************************************)
EXTENDS Integers, Sequences, FiniteSets, TLC

VARIABLES
    rng,            \* state of the process-wide np.random generator
    anchors,        \* self.anchors: the anchor set, [N, (y1, x1, y2, x2)]
    nb_per_image,   \* Config.RPN.ANCHOR.NB_PER_IMAGE of this run
    augmentation,   \* self.augmentation is set
    pc,             \* pc[p]: position of call p
    item,           \* item[p]: locals of DataGenerator.__getitem__ in call p
    rpn             \* rpn[p]: locals of build_rpn_targets in call p

vars == <<rng, anchors, nb_per_image, augmentation, pc, item, rpn>>

Procs == {1, 2}

----------------------------------------------------------------------------
(* Bounds of the model *)

\* largest number of ground-truth boxes handed to build_rpn_targets directly
MaxGt == 2
\* largest per-image anchor capacity tried
MaxCapacity == 4
\* seeds of the random generator tried: 0 .. MaxSeed
MaxSeed == 2
\* the retry counter of the load loop saturates here
MaxLoads == 2

----------------------------------------------------------------------------
(* Arithmetic helpers *)

Max(a, b) == IF a >= b THEN a ELSE b

Min(a, b) == IF a <= b THEN a ELSE b

Abs(a) == IF a < 0 THEN -a ELSE a

RECURSIVE Gcd(_, _)
Gcd(a, b) == IF b = 0 THEN a ELSE Gcd(b, a % b)

\* the fraction n/d (d > 0) in lowest terms
Rat(n, d) ==
    LET g == Gcd(Abs(n), d)
    IN  IF n = 0 THEN <<0, 1>> ELSE <<n \div g, d \div g>>

\* p1/q1 < p2/q2, p1/q1 >= p2/q2 for positive denominators
FracLess(f, g) == f[1] * g[2] < g[1] * f[2]

FracGeq(f, g) == ~FracLess(f, g)

Range(s) == {s[i] : i \in 1..Len(s)}

\* np.where(cond)[0]: the indices satisfying cond, ascending
RECURSIVE WhereFrom(_, _, _)
WhereFrom(cond, i, n) ==
    IF i > n THEN <<>>
    ELSE (IF cond[i] THEN <<i>> ELSE <<>>) \o WhereFrom(cond, i + 1, n)

Where(cond) == WhereFrom(cond, 1, Len(cond))

\* a[ix] for an index array ix
Take(a, ix) == [k \in 1..Len(ix) |-> a[ix[k]]]

\* np.sum(a == v)
CountEq(a, v) == Cardinality({i \in 1..Len(a) : a[i] = v})

----------------------------------------------------------------------------
(* Intersection over union: utils.compute_overlaps *)

Area(b) == (b[3] - b[1]) * (b[4] - b[2])

Intersection(a, b) ==
    Max(Min(a[3], b[3]) - Max(a[1], b[1]), 0)
        * Max(Min(a[4], b[4]) - Max(a[2], b[2]), 0)

\* IoU of two boxes of positive area, as <<intersection, union>>
compute_iou(a, b) == <<Intersection(a, b), Area(a) + Area(b) - Intersection(a, b)>>

\* [len(boxes1), len(boxes2)] matrix of IoUs
compute_overlaps(boxes1, boxes2) ==
    [i \in 1..Len(boxes1) |-> [j \in 1..Len(boxes2) |-> compute_iou(boxes1[i], boxes2[j])]]

\* np.argmax over a non-empty row of fractions: the first index of the maximum
ArgMax(row) ==
    CHOOSE i \in 1..Len(row) :
        /\ \A j \in 1..(i - 1) : FracLess(row[j], row[i])
        /\ \A j \in (i + 1)..Len(row) : FracGeq(row[i], row[j])

\* np.amax over a non-empty row
AMax(row) == row[ArgMax(row)]

\* column j of a matrix, as a row
Column(m, j) == [i \in 1..Len(m) |-> m[i][j]]

----------------------------------------------------------------------------
(* The process-wide random generator.  np.random.choice(ids, k,            *)
(* replace=False) draws k distinct elements of ids and advances the        *)
(* generator; the generator is a linear congruential one here.             *)

RngMod == 8

RngNext(s) == (5 * s + 3) % RngMod

RemoveAt(s, i) == [k \in 1..(Len(s) - 1) |-> IF k < i THEN s[k] ELSE s[k + 1]]

RECURSIVE ChoiceFrom(_, _, _, _)
ChoiceFrom(remaining, k, s, acc) ==
    IF k = 0 THEN [out |-> acc, rng |-> s]
    ELSE LET i == (s % Len(remaining)) + 1
         IN  ChoiceFrom(RemoveAt(remaining, i), k - 1, RngNext(s),
                        Append(acc, remaining[i]))

\* np.random.choice(ids, k, replace=False) under generator state s
RandomChoice(ids, k, s) == ChoiceFrom(ids, k, s, <<>>)

----------------------------------------------------------------------------
(* Configuration read by the code (tools.config.Config) *)

\* Config.RPN.BBOX_STD_DEV, as fractions: (0.1, 0.1, 0.2, 0.2)
BBOX_STD_DEV == <<<<1, 10>>, <<1, 10>>, <<1, 5>>, <<1, 5>>>>

\* Config.DETECTION.MAX_GT_INSTANCES
MAX_GT_INSTANCES == 2

\* the IoU thresholds written in build_rpn_targets
CROWD_IOU == <<1, 1000>>

NEGATIVE_IOU == <<3, 10>>

POSITIVE_IOU == <<7, 10>>

----------------------------------------------------------------------------
(* Regression values.  An entry of rpn_bbox is the record                  *)
(*   [ln |-> FALSE, n, d, mul]  for the number n/d  (mul = <<1, 1>>), or   *)
(*   [ln |-> TRUE,  n, d, mul]  for ln(n/d) * mul[1]/mul[2], n # d.        *)
(* ln(1) is exactly 0, so a logarithm of equal sizes is the number 0.      *)

Number(n, d) == [ln |-> FALSE, n |-> Rat(n, d)[1], d |-> Rat(n, d)[2], mul |-> <<1, 1>>]

Zero == Number(0, 1)

ZeroRow == <<Zero, Zero, Zero, Zero>>

\* (n/d) / std
LinearOver(n, d, std) == Number(n * std[2], d * std[1])

\* np.log(p/q) / std
LogOver(p, q, std) ==
    IF p = q THEN Zero
    ELSE [ln |-> TRUE, n |-> Rat(p, q)[1], d |-> Rat(p, q)[2], mul |-> Rat(std[2], std[1])]

\* lines 184-204: the refinement from anchor a to box gt, divided by std.
\* Centers are kept doubled: 2 * center = 2 * y1 + h.
BoxDelta(a, gt, std) ==
    LET gt_h == gt[3] - gt[1]
        gt_w == gt[4] - gt[2]
        gt_center_y2 == 2 * gt[1] + gt_h
        gt_center_x2 == 2 * gt[2] + gt_w
        a_h == a[3] - a[1]
        a_w == a[4] - a[2]
        a_center_y2 == 2 * a[1] + a_h
        a_center_x2 == 2 * a[2] + a_w
    IN  << LinearOver(gt_center_y2 - a_center_y2, 2 * a_h, std[1]),
           LinearOver(gt_center_x2 - a_center_x2, 2 * a_w, std[2]),
           LogOver(gt_h, a_h, std[3]),
           LogOver(gt_w, a_w, std[4]) >>

----------------------------------------------------------------------------
(* build_rpn_targets, statement by statement, on the record f of its       *)
(* locals.  arg_gt_class_ids/arg_gt_boxes are the arguments as passed;     *)
(* gt_class_ids/gt_boxes are the locals, rebound at lines 125-126.         *)

NoFrame ==
    [arg_gt_class_ids |-> <<>>, arg_gt_boxes |-> <<>>,
     gt_class_ids |-> <<>>, gt_boxes |-> <<>>,
     rpn_match |-> <<>>, rpn_bbox |-> <<>>, no_crowd_bool |-> <<>>,
     anchor_iou_argmax |-> <<>>, anchor_iou_max |-> <<>>, gt_iou_argmax |-> <<>>,
     ids |-> <<>>, ix |-> 0, error |-> "none"]

\* the locals on entry
EnterBuild(gt_class_ids, gt_boxes) ==
    [NoFrame EXCEPT !.arg_gt_class_ids = gt_class_ids, !.arg_gt_boxes = gt_boxes,
                    !.gt_class_ids = gt_class_ids, !.gt_boxes = gt_boxes]

\* line 120
CrowdIx(gt_class_ids) == Where([i \in 1..Len(gt_class_ids) |-> gt_class_ids[i] < 0])

\* line 123
NonCrowdIx(gt_class_ids) == Where([i \in 1..Len(gt_class_ids) |-> gt_class_ids[i] > 0])

\* lines 128-130
NoCrowdBool(anc, crowd_boxes) ==
    LET crowd_overlaps == compute_overlaps(anc, crowd_boxes)
    IN  [i \in 1..Len(anc) |-> FracLess(AMax(crowd_overlaps[i]), CROWD_IOU)]

\* lines 113-133
CrowdFilter(f, anc, cap) ==
    LET crowd_ix == CrowdIx(f.gt_class_ids)
        zeros == [EnterBuild(f.arg_gt_class_ids, f.arg_gt_boxes) EXCEPT
                     !.rpn_match = [i \in 1..Len(anc) |-> 0],
                     !.rpn_bbox = [k \in 1..cap |-> ZeroRow]]
    IN  IF Len(crowd_ix) > 0
        THEN LET non_crowd_ix == NonCrowdIx(f.gt_class_ids)
             IN  [zeros EXCEPT
                     !.gt_class_ids = Take(f.gt_class_ids, non_crowd_ix),
                     !.gt_boxes = Take(f.gt_boxes, non_crowd_ix),
                     !.no_crowd_bool = NoCrowdBool(anc, Take(f.gt_boxes, crowd_ix))]
        ELSE [zeros EXCEPT !.no_crowd_bool = [i \in 1..Len(anc) |-> TRUE]]

\* line 150 without "& (no_crowd_bool)"
NegativeMaskIgnoringCrowd(anchor_iou_max, no_crowd_bool) ==
    [i \in 1..Len(anchor_iou_max) |-> FracLess(anchor_iou_max[i], NEGATIVE_IOU)]

\* line 150: the mask of the anchors set to -1
NegativeMask(anchor_iou_max, no_crowd_bool) ==
    [i \in 1..Len(anchor_iou_max) |->
        FracLess(anchor_iou_max[i], NEGATIVE_IOU) /\ no_crowd_bool[i]]

\* lines 136-150.  np.argmax along an axis of length 0 raises ValueError.
NegativeLabel(f, anc) ==
    IF Len(f.gt_boxes) = 0
    THEN [f EXCEPT !.error = "ValueError"]
    ELSE LET overlaps == compute_overlaps(anc, f.gt_boxes)
             anchor_iou_argmax == [i \in 1..Len(anc) |-> ArgMax(overlaps[i])]
             anchor_iou_max == [i \in 1..Len(anc) |-> overlaps[i][anchor_iou_argmax[i]]]
             neg == NegativeMask(anchor_iou_max, f.no_crowd_bool)
         IN  [f EXCEPT
                 !.anchor_iou_argmax = anchor_iou_argmax,
                 !.anchor_iou_max = anchor_iou_max,
                 !.rpn_match = [i \in 1..Len(anc) |-> IF neg[i] THEN -1 ELSE f.rpn_match[i]]]

\* line 153
GtIouArgmax(anc, gt_boxes) ==
    LET overlaps == compute_overlaps(anc, gt_boxes)
    IN  [j \in 1..Len(gt_boxes) |-> ArgMax(Column(overlaps, j))]

\* lines 153-154
CoverageLabel(f, anc) ==
    LET gt_iou_argmax == GtIouArgmax(anc, f.gt_boxes)
    IN  [f EXCEPT
            !.gt_iou_argmax = gt_iou_argmax,
            !.rpn_match = [i \in 1..Len(anc) |->
                              IF i \in Range(gt_iou_argmax) THEN 1 ELSE f.rpn_match[i]]]

\* line 156 as an assignment of the whole array: np.where(iou >= 0.7, 1, 0)
ThresholdLabelOverwriting(f) ==
    [f EXCEPT !.rpn_match = [i \in 1..Len(f.rpn_match) |->
                                IF FracGeq(f.anchor_iou_max[i], POSITIVE_IOU)
                                THEN 1 ELSE 0]]

\* line 156
ThresholdLabel(f) ==
    [f EXCEPT !.rpn_match = [i \in 1..Len(f.rpn_match) |->
                                IF FracGeq(f.anchor_iou_max[i], POSITIVE_IOU)
                                THEN 1 ELSE f.rpn_match[i]]]

\* rpn_match[ids] = 0
ResetToNeutral(rpn_match, ids) ==
    [i \in 1..Len(rpn_match) |-> IF i \in Range(ids) THEN 0 ELSE rpn_match[i]]

\* line 161 without the "// 2"
PositiveExtraOfWholeCapacity(ids, cap) == Len(ids) - cap

\* line 161
PositiveExtra(ids, cap) == Len(ids) - (cap \div 2)

\* lines 168-169
NegativeExtra(ids, rpn_match, cap) == Len(ids) - (cap - CountEq(rpn_match, 1))

\* lines 160-165: [f |-> the locals, rng |-> the generator] afterwards
SubsamplePositive(f, cap, s) ==
    LET ids == Where([i \in 1..Len(f.rpn_match) |-> f.rpn_match[i] = 1])
        extra == PositiveExtra(ids, cap)
    IN  IF extra > 0
        THEN LET c == RandomChoice(ids, extra, s)
             IN  [f |-> [f EXCEPT !.ids = c.out,
                                  !.rpn_match = ResetToNeutral(f.rpn_match, c.out)],
                  rng |-> c.rng]
        ELSE [f |-> [f EXCEPT !.ids = ids], rng |-> s]

\* lines 167-173
SubsampleNegative(f, cap, s) ==
    LET ids == Where([i \in 1..Len(f.rpn_match) |-> f.rpn_match[i] = -1])
        extra == NegativeExtra(ids, f.rpn_match, cap)
    IN  IF extra > 0
        THEN LET c == RandomChoice(ids, extra, s)
             IN  [f |-> [f EXCEPT !.ids = c.out,
                                  !.rpn_match = ResetToNeutral(f.rpn_match, c.out)],
                  rng |-> c.rng]
        ELSE [f |-> [f EXCEPT !.ids = ids], rng |-> s]

\* lines 177-178
PositiveIds(f) ==
    [f EXCEPT !.ids = Where([i \in 1..Len(f.rpn_match) |-> f.rpn_match[i] = 1]),
              !.ix = 0]

\* line 205
NextIx(ix) == ix + 1

\* line 182 with the anchor's index in place of its argmax: the box at the
\* anchor's rank among the positives, the last box when there are fewer
ClosestGtByRank(f, i) == f.gt_boxes[Min(f.ix + 1, Len(f.gt_boxes))]

\* line 182: the box anchor i is regressed to
ClosestGt(f, i) == f.gt_boxes[f.anchor_iou_argmax[i]]

\* lines 180-205, one iteration: the anchor is ids[ix] of the code.  A write to
\* a row the array does not have raises IndexError.
RegressOne(f, anc) ==
    LET i == f.ids[f.ix + 1]
    IN  IF f.ix + 1 > Len(f.rpn_bbox)
        THEN [f EXCEPT !.error = "IndexError"]
        ELSE [f EXCEPT
                 !.rpn_bbox[f.ix + 1] = BoxDelta(anc[i], ClosestGt(f, i), BBOX_STD_DEV),
                 !.ix = NextIx(f.ix)]

\* lines 180-205, the whole loop
RECURSIVE RegressAll(_, _)
RegressAll(f, anc) ==
    IF f.ix = Len(f.ids) \/ f.error # "none" THEN f
    ELSE RegressAll(RegressOne(f, anc), anc)

\* build_rpn_targets run from entry to exit under generator state s:
\* [f |-> the locals at exit, rng |-> the generator]
build_rpn_targets(anc, cap, gt_class_ids, gt_boxes, s) ==
    LET f2 == NegativeLabel(CrowdFilter(EnterBuild(gt_class_ids, gt_boxes), anc, cap), anc)
    IN  IF f2.error # "none" THEN [f |-> f2, rng |-> s]
        ELSE LET f4 == ThresholdLabel(CoverageLabel(f2, anc))
                 r5 == SubsamplePositive(f4, cap, s)
                 r6 == SubsampleNegative(r5.f, cap, r5.rng)
             IN  [f |-> RegressAll(PositiveIds(r6.f), anc), rng |-> r6.rng]

----------------------------------------------------------------------------
(* Inputs tried.  Boxes of height 1 on the x axis give the IoU values the  *)
(* thresholds separate: 1, 9/11, 7/10, 2/3, 7/13, 1/2, 3/10, 1/4, 1/9, 0.         *)

BoxA == <<0, 0, 1, 10>>

BoxB == <<0, 1, 1, 11>>

BoxC == <<0, 3, 1, 13>>

BoxD == <<0, 8, 1, 18>>

BoxE == <<0, 20, 1, 30>>

BoxF == <<0, 40, 1, 50>>

BoxG == <<0, 26, 1, 36>>

BoxH == <<0, 0, 1, 7>>

BoxT == <<0, 0, 1, 3>>

BoxTall == <<0, 0, 2, 10>>

AnchorSets ==
    { <<BoxA, BoxB, BoxE, BoxF>>,
      <<BoxE, BoxA, BoxD, BoxF>>,
      <<BoxH, BoxT, BoxTall>> }

GtBoxPool == {BoxA, BoxC, BoxE, BoxG}

\* class ids: a crowd, the background id, an object class
ClassIdPool == {-1, 0, 1}

SeqsUpTo(S, n) == UNION {[1..k -> S] : k \in 0..n}

GtInputs ==
    { g \in SeqsUpTo(ClassIdPool \X GtBoxPool, MaxGt) : TRUE }

ClassIdsOf(g) == [k \in 1..Len(g) |-> g[k][1]]

BoxesOf(g) == [k \in 1..Len(g) |-> g[k][2]]

----------------------------------------------------------------------------
(* The dataset handler.  A mask is the set of its non-zero pixels <<y, x>>; *)
(* an image is the sequence of its instances [class_id, mask].              *)

Rect(b) == {<<y, x>> : y \in b[1]..(b[3] - 1), x \in b[2]..(b[4] - 1)}

\* dataset_handler.image_ids, copied to self.image_ids (line 244)
image_ids == <<10, 11, 12, 13>>

\* dataset_handler.load_mask(image_id), resized
load_mask(image_id) ==
    CASE image_id = 10 ->
            << [class_id |-> 1, mask |-> Rect(BoxA)],
               [class_id |-> 2, mask |-> Rect(BoxE)],
               [class_id |-> -1, mask |-> Rect(BoxD)] >>
      [] image_id = 11 ->
            << [class_id |-> 2, mask |-> Rect(BoxC) \ {<<0, 5>>}] >>
      [] image_id = 12 ->
            << [class_id |-> -1, mask |-> Rect(BoxA)] >>
      [] OTHER ->
            << [class_id |-> 1, mask |-> Rect(BoxTall) \ {<<1, 9>>}],
               [class_id |-> 3, mask |-> {}],
               [class_id |-> 2, mask |-> Rect(BoxD)] >>

\* utils.extract_bboxes on one mask slice: the tight box of the non-zero pixels
extract_bbox(mask) ==
    IF mask = {} THEN <<0, 0, 0, 0>>
    ELSE LET ys == {q[1] : q \in mask}
             xs == {q[2] : q \in mask}
             lo(S) == CHOOSE v \in S : \A w \in S : v <= w
             hi(S) == CHOOSE v \in S : \A w \in S : v >= w
         IN  <<lo(ys), lo(xs), hi(ys) + 1, hi(xs) + 1>>

\* the instances an augmentation pass may leave with a non-empty mask: all of
\* them without augmentation, any subset with it (a crop empties a mask)
AugmentOutcomes(n, aug) == IF aug THEN SUBSET (1..n) ELSE {1..n}

\* load_image_gt (lines 43-96), class ids, boxes and masks; kept is the set of
\* instances whose mask the augmentation left non-empty
load_image_gt(image_id, kept) ==
    LET loaded == load_mask(image_id)
        mask == [k \in 1..Len(loaded) |-> IF k \in kept THEN loaded[k].mask ELSE {}]
        class_ids == [k \in 1..Len(loaded) |-> loaded[k].class_id]
        _idx == Where([k \in 1..Len(loaded) |-> mask[k] # {}])
    IN  [gt_class_ids |-> Take(class_ids, _idx),
         gt_boxes |-> [k \in 1..Len(_idx) |-> extract_bbox(mask[_idx[k]])],
         gt_masks |-> Take(mask, _idx)]

----------------------------------------------------------------------------
(* Locals of DataGenerator.__getitem__.  seed is the state of the random   *)
(* generator when the call was issued, loaded_id the image id of the last  *)
(* load_image_gt call, loads the number of loads so far (saturating).      *)

NoItem ==
    [active |-> FALSE, image_index |-> 0, image_id |-> 0, loads |-> 0,
     loaded_id |-> 0, seed |-> 0,
     gt_class_ids |-> <<>>, gt_boxes |-> <<>>, gt_masks |-> <<>>,
     rpn_match |-> <<>>, rpn_bbox |-> <<>>]

EnterGetItem(image_index, s) ==
    [NoItem EXCEPT !.active = TRUE, !.image_index = image_index, !.seed = s]

\* line 268 as np.any(gt_class_ids != 0)
AnyNonZero(gt_class_ids) == \E k \in 1..Len(gt_class_ids) : gt_class_ids[k] # 0

\* line 268
AnyPositive(gt_class_ids) == \E k \in 1..Len(gt_class_ids) : gt_class_ids[k] > 0

\* a[:n] = a followed by zeros up to n entries (lines 284-298)
PadTo(a, n, zero) == [k \in 1..n |-> IF k <= Len(a) THEN a[k] ELSE zero]

\* line 280
SelectClassIds(gt_class_ids, ids) == Take(gt_class_ids, ids)

\* line 281
SelectBoxes(gt_boxes, ids) == Take(gt_boxes, ids)

\* line 282 as gt_masks[:, :, :len(ids)]
SelectLeadingMasks(gt_masks, ids) == SubSeq(gt_masks, 1, Len(ids))

\* line 282
SelectMasks(gt_masks, ids) == Take(gt_masks, ids)

\* lines 276-298: [it |-> the locals, rng |-> the generator] afterwards
FitInstances(it, s) ==
    LET n == Len(it.gt_boxes)
    IN  IF n > MAX_GT_INSTANCES
        THEN LET c == RandomChoice([k \in 1..n |-> k], MAX_GT_INSTANCES, s)
             IN  [it |-> [it EXCEPT
                            !.gt_class_ids = SelectClassIds(it.gt_class_ids, c.out),
                            !.gt_boxes = SelectBoxes(it.gt_boxes, c.out),
                            !.gt_masks = SelectMasks(it.gt_masks, c.out)],
                  rng |-> c.rng]
        ELSE IF n < MAX_GT_INSTANCES
        THEN [it |-> [it EXCEPT
                        !.gt_class_ids = PadTo(it.gt_class_ids, MAX_GT_INSTANCES, 0),
                        !.gt_boxes = PadTo(it.gt_boxes, MAX_GT_INSTANCES, <<0, 0, 0, 0>>),
                        !.gt_masks = PadTo(it.gt_masks, MAX_GT_INSTANCES, {})],
              rng |-> s]
        ELSE [it |-> it, rng |-> s]

----------------------------------------------------------------------------
(* Actions of build_rpn_targets in call p *)

\* lines 113-133
DoCrowdFilter(p) ==
    /\ pc[p] = "crowd"
    /\ rpn' = [rpn EXCEPT ![p] = CrowdFilter(rpn[p], anchors, nb_per_image)]
    /\ pc' = [pc EXCEPT ![p] = "negative"]
    /\ UNCHANGED <<rng, anchors, nb_per_image, augmentation, item>>

\* lines 136-150; the ValueError leaves the function (and its caller)
DoNegativeLabel(p) ==
    /\ pc[p] = "negative"
    /\ rpn' = [rpn EXCEPT ![p] = NegativeLabel(rpn[p], anchors)]
    /\ pc' = [pc EXCEPT ![p] = IF rpn'[p].error = "none" THEN "coverage" ELSE "raised"]
    /\ UNCHANGED <<rng, anchors, nb_per_image, augmentation, item>>

\* lines 153-154
DoCoverageLabel(p) ==
    /\ pc[p] = "coverage"
    /\ rpn' = [rpn EXCEPT ![p] = CoverageLabel(rpn[p], anchors)]
    /\ pc' = [pc EXCEPT ![p] = "threshold"]
    /\ UNCHANGED <<rng, anchors, nb_per_image, augmentation, item>>

\* line 156
DoThresholdLabel(p) ==
    /\ pc[p] = "threshold"
    /\ rpn' = [rpn EXCEPT ![p] = ThresholdLabel(rpn[p])]
    /\ pc' = [pc EXCEPT ![p] = "subsample_positive"]
    /\ UNCHANGED <<rng, anchors, nb_per_image, augmentation, item>>

\* lines 160-165
DoSubsamplePositive(p) ==
    /\ pc[p] = "subsample_positive"
    /\ LET r == SubsamplePositive(rpn[p], nb_per_image, rng)
       IN  /\ rpn' = [rpn EXCEPT ![p] = r.f]
           /\ rng' = r.rng
    /\ pc' = [pc EXCEPT ![p] = "subsample_negative"]
    /\ UNCHANGED <<anchors, nb_per_image, augmentation, item>>

\* lines 167-178
DoSubsampleNegative(p) ==
    /\ pc[p] = "subsample_negative"
    /\ LET r == SubsampleNegative(rpn[p], nb_per_image, rng)
       IN  /\ rpn' = [rpn EXCEPT ![p] = PositiveIds(r.f)]
           /\ rng' = r.rng
    /\ pc' = [pc EXCEPT ![p] = "regress"]
    /\ UNCHANGED <<anchors, nb_per_image, augmentation, item>>

\* lines 180-205, one iteration of the loop
DoRegressOne(p) ==
    /\ pc[p] = "regress"
    /\ rpn[p].ix < Len(rpn[p].ids)
    /\ rpn' = [rpn EXCEPT ![p] = RegressOne(rpn[p], anchors)]
    /\ pc' = [pc EXCEPT ![p] = IF rpn'[p].error = "none" THEN "regress" ELSE "raised"]
    /\ UNCHANGED <<rng, anchors, nb_per_image, augmentation, item>>

\* line 207: back to the caller, __getitem__ (lines 272-273) or the direct caller
DoBuildReturn(p) ==
    /\ pc[p] = "regress"
    /\ rpn[p].ix = Len(rpn[p].ids)
    /\ pc' = [pc EXCEPT ![p] = IF item[p].active THEN "fit" ELSE "returned"]
    /\ item' = [item EXCEPT ![p].rpn_match = IF item[p].active THEN rpn[p].rpn_match ELSE @,
                            ![p].rpn_bbox = IF item[p].active THEN rpn[p].rpn_bbox ELSE @]
    /\ UNCHANGED <<rng, anchors, nb_per_image, augmentation, rpn>>

Build(p) ==
    \/ DoCrowdFilter(p)
    \/ DoNegativeLabel(p)
    \/ DoCoverageLabel(p)
    \/ DoThresholdLabel(p)
    \/ DoSubsamplePositive(p)
    \/ DoSubsampleNegative(p)
    \/ DoRegressOne(p)
    \/ DoBuildReturn(p)

----------------------------------------------------------------------------
(* Spec: one direct call of build_rpn_targets (call 1) on every input tried *)

Init ==
    /\ rng \in 0..MaxSeed
    /\ anchors \in AnchorSets
    /\ nb_per_image \in 2..MaxCapacity
    /\ augmentation = FALSE
    /\ pc = [p \in Procs |-> IF p = 1 THEN "crowd" ELSE "idle"]
    /\ item = [p \in Procs |-> NoItem]
    /\ \E g \in GtInputs :
          rpn = [p \in Procs |-> IF p = 1 THEN EnterBuild(ClassIdsOf(g), BoxesOf(g))
                                 ELSE NoFrame]

Next == \E p \in Procs : Build(p)

Spec == Init /\ [][Next]_vars

\* what __getitem__ returns (lines 312-313), without the image
Output(it) ==
    [rpn_match |-> it.rpn_match, rpn_bbox |-> it.rpn_bbox,
     gt_class_ids |-> it.gt_class_ids, gt_boxes |-> it.gt_boxes, gt_masks |-> it.gt_masks]

\* lines 271-313 on the load result gt, run without interruption from
\* generator state s
getitem_from(anc, cap, gt, s) ==
    LET b == build_rpn_targets(anc, cap, gt.gt_class_ids, gt.gt_boxes, s)
        it == [NoItem EXCEPT !.gt_class_ids = gt.gt_class_ids,
                             !.gt_boxes = gt.gt_boxes,
                             !.gt_masks = gt.gt_masks,
                             !.rpn_match = b.f.rpn_match,
                             !.rpn_bbox = b.f.rpn_bbox]
    IN  Output(FitInstances(it, b.rng).it)

----------------------------------------------------------------------------
(* Actions of DataGenerator.__getitem__ in call p *)

\* lines 260-262
DoGetItem(p) ==
    /\ pc[p] = "getitem"
    /\ item' = [item EXCEPT ![p].image_id = image_ids[item[p].image_index]]
    /\ pc' = [pc EXCEPT ![p] = "load"]
    /\ UNCHANGED <<rng, anchors, nb_per_image, augmentation, rpn>>

\* lines 263-273: one turn of the loop, and the call of build_rpn_targets once
\* a load has a class id > 0
DoLoadImageGt(p) ==
    /\ pc[p] = "load"
    /\ \E kept \in AugmentOutcomes(Len(load_mask(item[p].image_id)), augmentation) :
          LET gt == load_image_gt(item[p].image_id, kept)
              it == [item[p] EXCEPT !.loads = Min(@ + 1, MaxLoads),
                                    !.loaded_id = item[p].image_id,
                                    !.gt_class_ids = gt.gt_class_ids,
                                    !.gt_boxes = gt.gt_boxes,
                                    !.gt_masks = gt.gt_masks]
          IN  /\ item' = [item EXCEPT ![p] = it]
              /\ IF AnyPositive(gt.gt_class_ids)
                 THEN /\ pc' = [pc EXCEPT ![p] = "crowd"]
                      /\ rpn' = [rpn EXCEPT ![p] = EnterBuild(gt.gt_class_ids, gt.gt_boxes)]
                 ELSE /\ pc' = pc
                      /\ rpn' = rpn
    /\ UNCHANGED <<rng, anchors, nb_per_image, augmentation>>

\* lines 275-298
DoFitInstances(p) ==
    /\ pc[p] = "fit"
    /\ LET r == FitInstances(item[p], rng)
       IN  /\ item' = [item EXCEPT ![p] = r.it]
           /\ rng' = r.rng
    /\ pc' = [pc EXCEPT ![p] = "convert"]
    /\ UNCHANGED <<anchors, nb_per_image, augmentation, rpn>>

\* lines 300-313: the arrays are converted and returned, their entries unchanged
DoGetItemReturn(p) ==
    /\ pc[p] = "convert"
    /\ pc' = [pc EXCEPT ![p] = "done"]
    /\ UNCHANGED <<rng, anchors, nb_per_image, augmentation, item, rpn>>

GetItem(p) ==
    \/ DoGetItem(p)
    \/ DoLoadImageGt(p)
    \/ DoFitInstances(p)
    \/ DoGetItemReturn(p)

NextGet == \E p \in Procs : GetItem(p) \/ Build(p)

\* the anchor sets of the runs of __getitem__
ItemAnchorSets == { <<BoxA, BoxB, BoxE, BoxF>>, <<BoxE, BoxA, BoxD, BoxF>> }

----------------------------------------------------------------------------
(* SpecGet: one call of DataGenerator.__getitem__ (call 1) *)

InitGet ==
    /\ rng \in 0..MaxSeed
    /\ anchors \in ItemAnchorSets
    /\ nb_per_image \in 2..MaxCapacity
    /\ augmentation \in BOOLEAN
    /\ pc = [p \in Procs |-> IF p = 1 THEN "getitem" ELSE "idle"]
    /\ \E i \in 1..Len(image_ids) :
          item = [p \in Procs |-> IF p = 1 THEN EnterGetItem(i, rng) ELSE NoItem]
    /\ rpn = [p \in Procs |-> NoFrame]

SpecGet == InitGet /\ [][NextGet]_vars

----------------------------------------------------------------------------
(* SpecConc: two calls of DataGenerator.__getitem__ running concurrently   *)
(* in one process, interleaved statement by statement                      *)

InitConc ==
    /\ rng \in 0..MaxSeed
    /\ anchors \in ItemAnchorSets
    /\ nb_per_image \in 2..MaxCapacity
    /\ augmentation = FALSE
    /\ pc = [p \in Procs |-> "getitem"]
    /\ \E i \in [Procs -> 1..Len(image_ids)] :
          item = [p \in Procs |-> EnterGetItem(i[p], rng)]
    /\ rpn = [p \in Procs |-> NoFrame]

SpecConc == InitConc /\ [][NextGet]_vars

----------------------------------------------------------------------------
(* Vocabulary of the properties *)

\* build_rpn_targets of call p has returned
Returned(p) == pc[p] \in {"returned", "fit", "convert", "done"}

\* the labels of call p are past line 150
Labelled(p) ==
    pc[p] \in {"coverage", "threshold", "subsample_positive", "subsample_negative",
               "regress"} \/ Returned(p)

\* the boxes passed to call p with a class id < 0
CrowdBoxes(p) == Take(rpn[p].arg_gt_boxes, CrowdIx(rpn[p].arg_gt_class_ids))

\* anchor i overlaps a crowd box of call p with IoU >= 0.001
InCrowd(p, i) ==
    \E c \in 1..Len(CrowdBoxes(p)) :
        FracGeq(compute_iou(anchors[i], CrowdBoxes(p)[c]), CROWD_IOU)

\* the best IoU of anchor i against the boxes used for matching in call p
BestIou(p, i) == AMax(compute_overlaps(anchors, rpn[p].gt_boxes)[i])

\* anchor i is the argmax anchor of box j of call p: the first of the anchors
\* with the best IoU against it
IsBestAnchorOf(p, i, j) ==
    /\ \A k \in 1..Len(anchors) :
          FracGeq(compute_iou(anchors[i], rpn[p].gt_boxes[j]),
                  compute_iou(anchors[k], rpn[p].gt_boxes[j]))
    /\ \A k \in 1..(i - 1) :
          FracLess(compute_iou(anchors[k], rpn[p].gt_boxes[j]),
                   compute_iou(anchors[i], rpn[p].gt_boxes[j]))

Positives(m) == Where([i \in 1..Len(m) |-> m[i] = 1])

\* the row of rpn_bbox that belongs to positive anchor i
RowOf(p, i) == rpn[p].rpn_bbox[Cardinality({k \in 1..i : rpn[p].rpn_match[k] = 1})]

----------------------------------------------------------------------------
\* C1: in the labels build_rpn_targets returns, every ground-truth box used for
\* matching has an anchor labeled +1: its best anchor, or an anchor whose
\* closest box it is.
C1_EveryBoxKeepsAPositive ==
    \A p \in Procs :
        Returned(p) =>
            \A j \in 1..Len(rpn[p].gt_boxes) :
                \E i \in 1..Len(anchors) :
                    /\ rpn[p].rpn_match[i] = 1
                    /\ rpn[p].gt_iou_argmax[j] = i \/ rpn[p].anchor_iou_argmax[i] = j

\* C2: in the returned labels at most floor(capacity/2) anchors are +1 and at
\* most capacity anchors are +1 or -1.
C2_Balance ==
    \A p \in Procs :
        (pc[p] = "regress" \/ Returned(p)) =>
            /\ CountEq(rpn[p].rpn_match, 1) <= nb_per_image \div 2
            /\ CountEq(rpn[p].rpn_match, 1) + CountEq(rpn[p].rpn_match, -1) <= nb_per_image

\* both subsamplings reset an anchor and both caps are met with equality
C2_Witness ==
    \E p \in Procs :
        /\ pc[p] = "returned"
        /\ CountEq(rpn[p].rpn_match, 1) = nb_per_image \div 2
        /\ CountEq(rpn[p].rpn_match, 1) + CountEq(rpn[p].rpn_match, -1) = nb_per_image
        /\ \E i \in 1..Len(anchors) :
              FracGeq(BestIou(p, i), POSITIVE_IOU) /\ rpn[p].rpn_match[i] = 0
        /\ \E i \in 1..Len(anchors) :
              /\ FracLess(BestIou(p, i), NEGATIVE_IOU)
              /\ ~InCrowd(p, i)
              /\ i \notin Range(rpn[p].gt_iou_argmax)
              /\ rpn[p].rpn_match[i] = 0

\* C3: a call with no non-crowd box returns normally, with no anchor +1, every
\* anchor that overlaps a crowd box neutral and no regression row written.
C3_EmptyGroundTruthReturns ==
    \A p \in Procs :
        ( /\ pc[p] \in {"returned", "raised"}
          /\ \A k \in 1..Len(rpn[p].arg_gt_class_ids) : rpn[p].arg_gt_class_ids[k] < 0 )
        =>
        ( /\ pc[p] = "returned"
          /\ rpn[p].error = "none"
          /\ \A i \in 1..Len(anchors) :
                /\ rpn[p].rpn_match[i] # 1
                /\ InCrowd(p, i) => rpn[p].rpn_match[i] = 0
          /\ rpn[p].ix = 0
          /\ \A k \in 1..Len(rpn[p].rpn_bbox) : rpn[p].rpn_bbox[k] = ZeroRow )

\* C4: no anchor with crowd IoU >= 0.001 is labeled -1; without crowd boxes every
\* anchor with best IoU < 0.3 is labeled -1 by line 150; every +1 and every
\* regression row comes from a box that is not a crowd box.
C4_Crowd ==
    \A p \in Procs :
        Labelled(p) =>
            /\ \A i \in 1..Len(anchors) : InCrowd(p, i) => rpn[p].rpn_match[i] # -1
            /\ (pc[p] = "coverage" /\ Len(CrowdBoxes(p)) = 0) =>
                  \A i \in 1..Len(anchors) :
                      FracLess(BestIou(p, i), NEGATIVE_IOU) => rpn[p].rpn_match[i] = -1
            /\ \A i \in 1..Len(anchors) :
                  rpn[p].rpn_match[i] = 1 =>
                      \E k \in 1..Len(rpn[p].arg_gt_boxes) :
                          /\ rpn[p].arg_gt_class_ids[k] >= 0
                          /\ \/ FracGeq(compute_iou(anchors[i], rpn[p].arg_gt_boxes[k]),
                                        POSITIVE_IOU)
                             \/ \A a \in 1..Len(anchors) :
                                   FracGeq(compute_iou(anchors[i], rpn[p].arg_gt_boxes[k]),
                                           compute_iou(anchors[a], rpn[p].arg_gt_boxes[k]))
            /\ Returned(p) =>
                  \A i \in 1..Len(anchors) :
                      rpn[p].rpn_match[i] = 1 =>
                          \E k \in 1..Len(rpn[p].arg_gt_boxes) :
                              /\ rpn[p].arg_gt_class_ids[k] >= 0
                              /\ RowOf(p, i) = BoxDelta(anchors[i], rpn[p].arg_gt_boxes[k],
                                                        BBOX_STD_DEV)

\* a returned call with a crowd box: an anchor inside the crowd with best IoU
\* < 0.3 stayed neutral, another anchor is -1 and another +1
C4_Witness ==
    \E p \in Procs :
        /\ pc[p] = "returned"
        /\ Len(CrowdBoxes(p)) > 0
        /\ \E i \in 1..Len(anchors) :
              /\ InCrowd(p, i)
              /\ FracLess(BestIou(p, i), NEGATIVE_IOU)
              /\ rpn[p].rpn_match[i] = 0
        /\ \E i \in 1..Len(anchors) : rpn[p].rpn_match[i] = -1
        /\ \E i \in 1..Len(anchors) : rpn[p].rpn_match[i] = 1

\* C5: with a single ground-truth box equal to an anchor, that anchor is +1 in
\* the returned labels and its regression row is (0, 0, 0, 0).
C5_ExactAnchorIsPositive ==
    \A p \in Procs :
        ( /\ Returned(p)
          /\ Len(rpn[p].arg_gt_boxes) = 1
          /\ rpn[p].arg_gt_class_ids[1] > 0 )
        =>
        \A i \in 1..Len(anchors) :
            anchors[i] = rpn[p].arg_gt_boxes[1] =>
                /\ rpn[p].rpn_match[i] = 1
                /\ RowOf(p, i) = ZeroRow

C10_LabelOrder ==
    [][ \A p \in Procs :
          LET m == rpn[p].rpn_match
              n == rpn'[p].rpn_match
          IN  /\ pc[p] \in {"coverage", "threshold"} =>
                    \A i \in 1..Len(m) : n[i] = m[i] \/ n[i] = 1
              /\ pc[p] = "threshold" => \A i \in 1..Len(m) : m[i] = 1 => n[i] = 1
              /\ pc[p] = "coverage" =>
                    \A i \in 1..Len(m) :
                        (m[i] = -1 /\ \E j \in 1..Len(rpn[p].gt_boxes) : IsBestAnchorOf(p, i, j))
                            => n[i] = 1
              /\ pc[p] \in {"subsample_positive", "subsample_negative"} =>
                    \A i \in 1..Len(m) : n[i] = m[i] \/ n[i] = 0
              /\ (pc[p] = "regress" /\ pc'[p] = "returned") =>
                    \A i \in 1..Len(m) :
                        /\ n[i] = 1 =>
                              \/ FracGeq(BestIou(p, i), POSITIVE_IOU)
                              \/ \E j \in 1..Len(rpn[p].gt_boxes) : IsBestAnchorOf(p, i, j)
                        /\ n[i] = -1 => FracLess(BestIou(p, i), NEGATIVE_IOU)
      ]_vars

\* a returned call in which no anchor reaches 0.7: an anchor with best IoU in
\* [0.3, 0.7) is +1, and so is an anchor that line 150 had labeled -1
C10_Witness ==
    \E p \in Procs :
        /\ pc[p] = "returned"
        /\ \E i \in 1..Len(anchors) :
              /\ rpn[p].rpn_match[i] = 1
              /\ FracLess(BestIou(p, i), POSITIVE_IOU)
              /\ FracGeq(BestIou(p, i), NEGATIVE_IOU)
              /\ \A k \in 1..Len(anchors) : FracLess(BestIou(p, k), POSITIVE_IOU)
        /\ \E i \in 1..Len(anchors) :
              /\ rpn[p].rpn_match[i] = 1
              /\ FracLess(BestIou(p, i), NEGATIVE_IOU)
              /\ ~InCrowd(p, i)

----------------------------------------------------------------------------
(* Properties of DataGenerator.__getitem__ *)

\* the instances of the image of call p
Instances(p) == load_mask(image_ids[item[p].image_index])

\* entry k of the arrays of call p is instance j of the last load: the class id
\* and box build_rpn_targets was given at j, and the mask of that instance
IsLoaded(p, k, j) ==
    /\ item[p].gt_class_ids[k] = rpn[p].arg_gt_class_ids[j]
    /\ item[p].gt_boxes[k] = rpn[p].arg_gt_boxes[j]
    /\ extract_bbox(item[p].gt_masks[k]) = item[p].gt_boxes[k]
    /\ \E q \in 1..Len(Instances(p)) :
          /\ Instances(p)[q].class_id = item[p].gt_class_ids[k]
          /\ Instances(p)[q].mask = item[p].gt_masks[k]

IsPadding(p, k) ==
    /\ item[p].gt_class_ids[k] = 0
    /\ item[p].gt_boxes[k] = <<0, 0, 0, 0>>
    /\ item[p].gt_masks[k] = {}

\* C6: __getitem__ never raises, and the class ids, boxes and masks it returns
\* have MAX_GT_INSTANCES entries each: of n > MAX_GT_INSTANCES loaded instances
\* it keeps MAX_GT_INSTANCES distinct ones, of n <= MAX_GT_INSTANCES it keeps all
\* in order followed by zero entries; entry k of the three arrays is one instance.
C6_FixedSize ==
    \A p \in Procs :
        /\ pc[p] # "raised"
        /\ pc[p] \in {"convert", "done"} =>
              LET n == Len(rpn[p].arg_gt_boxes)
              IN  /\ Len(item[p].gt_class_ids) = MAX_GT_INSTANCES
                  /\ Len(item[p].gt_boxes) = MAX_GT_INSTANCES
                  /\ Len(item[p].gt_masks) = MAX_GT_INSTANCES
                  /\ n > MAX_GT_INSTANCES =>
                        \E sel \in [1..MAX_GT_INSTANCES -> 1..n] :
                            /\ \A k, l \in 1..MAX_GT_INSTANCES : k # l => sel[k] # sel[l]
                            /\ \A k \in 1..MAX_GT_INSTANCES : IsLoaded(p, k, sel[k])
                  /\ n <= MAX_GT_INSTANCES =>
                        /\ \A k \in 1..n : IsLoaded(p, k, k)
                        /\ \A k \in (n + 1)..MAX_GT_INSTANCES : IsPadding(p, k)

\* a call returned MAX_GT_INSTANCES of more loaded instances, not the leading ones
C6_Witness ==
    \E p \in Procs :
        /\ pc[p] = "done"
        /\ Len(rpn[p].arg_gt_boxes) > MAX_GT_INSTANCES
        /\ item[p].gt_boxes[1] # rpn[p].arg_gt_boxes[1]
        /\ item[p].gt_class_ids[1] = rpn[p].arg_gt_class_ids[3]

\* C7: what a call returns is what the same load result gives when lines 271-313
\* run alone from the seed the call was issued under, whatever the other call does.
C7_IndependentOfInterleaving ==
    \A p \in Procs :
        pc[p] = "done" =>
            Output(item[p]) =
                getitem_from(anchors, nb_per_image,
                             load_image_gt(item[p].image_id, 1..Len(Instances(p))),
                             item[p].seed)

\* C8: build_rpn_targets is entered only with a class id > 0 among those loaded,
\* every load is of the image id of the index, and a call on an image none of
\* whose instances has a class id > 0 never leaves the load loop.
C8_LoadLoop ==
    \A p \in Procs :
        item[p].active =>
            /\ pc[p] \notin {"getitem", "load"} =>
                  \E k \in 1..Len(rpn[p].arg_gt_class_ids) : rpn[p].arg_gt_class_ids[k] > 0
            /\ item[p].loads >= 1 => item[p].loaded_id = image_ids[item[p].image_index]
            /\ (\A q \in 1..Len(Instances(p)) :
                    Instances(p)[q].class_id <= 0 \/ Instances(p)[q].mask = {})
                  => pc[p] \in {"getitem", "load"}

\* build_rpn_targets entered after the load was retried
C8_Witness ==
    \E p \in Procs :
        /\ pc[p] = "crowd"
        /\ item[p].loads = MaxLoads
        /\ item[p].loaded_id = image_ids[item[p].image_index]

====
